---- MODULE Spec2Model ----
\* A model of the read_cell crate (src/src/lib.rs): ReadCell<T>, a read-only
\* view over a memory location that may be mutated through a Cell<T> that
\* aliases it.  Memory is a set of allocations, a reference is a pointer
\* (allocation, offset), and every operation of the crate is translated from
\* its body: the reference casts keep the address, get copies the value out of
\* the location, new allocates, into_inner moves the value out.
EXTENDS Integers, Sequences, FiniteSets, TLC

\* ---------------------------------------------------------------- bounds
\* The contained type T is modelled by the integers 0..MaxVal.
MaxVal == 1
\* The client program holds at most MaxOwned owning ReadCell<T> bindings.
MaxOwned == 2
\* The arrays and slices of the client program have at most MaxLen elements.
MaxLen == 2

Val == 0..MaxVal
Slots == 1..MaxOwned

\* A value that is no T: what a read outside every live allocation yields.
Poison == MaxVal + 1

VARIABLES
    prog,      \* which client program runs: "scalar" or "slice"
    mem,       \* allocation id -> the sequence of T values stored in it
    own,       \* slot -> pointer to the owning ReadCell<T> bound there, or Null
    rf,        \* the &ReadCell<T> made by from_ref(&regular_field), or Null
    rc,        \* the &ReadCell<T> made by from_cell(&special_field), or Null
    whole,     \* the &ReadCell<[T]> / &ReadCell<[T; N]> over the array, or NoSeq
    elems,     \* the &[ReadCell<T>] / &[ReadCell<T>; N] made from whole, or NoSeq
    arrIsCell, \* the array is a Cell<[T; N]> (TRUE) or a plain [T; N] (FALSE)
    gval,      \* history: slot -> the value last given to the instance there
    gobj,      \* history: the values last given to the client's own objects
    ret        \* the last operation and what it returned

vars == <<prog, mem, own, rf, rc, whole, elems, arrIsCell, gval, gobj, ret>>

\* ------------------------------------------------------- memory, pointers
Ptr(a, o) == [alloc |-> a, off |-> o]
Null == Ptr(<<"null", 0>>, 0)

\* The allocations of the client program: the two fields of SomeStruct of the
\* type's doc example, the array of the slice examples, one stack slot per
\* owning binding.
RegularAlloc == <<"regular_field", 0>>
SpecialAlloc == <<"special_field", 0>>
ArrayAlloc == <<"array", 0>>
OwnAlloc(k) == <<"ReadCell", k>>

\* *p for a p: *const T.
Read(m, p) ==
    IF p.alloc \in DOMAIN m /\ p.off >= 0 /\ p.off < Len(m[p.alloc])
    THEN m[p.alloc][p.off + 1]
    ELSE Poison

\* *p = v for a p: *mut T.
Write(m, p, v) == [m EXCEPT ![p.alloc] = [@ EXCEPT ![p.off + 1] = v]]

\* *p = s for a p: *mut [T; n], n = Len(s).
WriteSeq(m, p, s) ==
    [m EXCEPT ![p.alloc] = [i \in DOMAIN @ |->
        IF i > p.off /\ i <= p.off + Len(s) THEN s[i - p.off] ELSE @[i]]]

\* A fresh allocation holding the values s.
Alloc(m, a, s) == (a :> s) @@ m

\* The allocation a is released.
Dealloc(m, a) == [x \in (DOMAIN m) \ {a} |-> m[x]]

\* ------------------------------------------------------------ layout
\* Types: T itself, and [T; n] / [T] of n elements.  Sizes and alignments are
\* counted in units of size_of::<T>() and align_of::<T>().
TyT == [kind |-> "T", len |-> 1]
TySeq(n) == [kind |-> "seq", len |-> n]
Types == {TyT} \cup {TySeq(n) : n \in 0..MaxLen}

size_of(ty) == IF ty.kind = "T" THEN 1 ELSE ty.len
align_of(ty) == 1

\* struct ReadCell<T: ?Sized> { value: UnsafeCell<T> }: the fields, each with the
\* type whose layout it has (UnsafeCell<T> is itself transparent over T).
\* A faulty layout: a second field (as RefCell's borrow flag) before the value.
ReadCellFieldsTagged(ty) == <<[name |-> "borrow", ty |-> TyT], [name |-> "value", ty |-> ty]>>

ReadCellFields(ty) == <<[name |-> "value", ty |-> ty]>>

RECURSIVE SumSizes(_)
SumSizes(fs) == IF fs = <<>> THEN 0 ELSE size_of(Head(fs).ty) + SumSizes(Tail(fs))

RECURSIVE MaxAlign(_)
MaxAlign(fs) ==
    IF fs = <<>> THEN 1
    ELSE LET a == align_of(Head(fs).ty)
             b == MaxAlign(Tail(fs))
         IN IF a > b THEN a ELSE b

\* #[repr(transparent)]: the layout of the struct is that of its fields laid
\* out in order (one field, so the layout of that field).
size_of_ReadCell(ty) == SumSizes(ReadCellFields(ty))
align_of_ReadCell(ty) == MaxAlign(ReadCellFields(ty))

\* ------------------------------------------------- the crate's operations
\* References to the client's own objects, as the borrow expressions give them.
RegularRef == Ptr(RegularAlloc, 0)
SpecialRef == Ptr(SpecialAlloc, 0)
ArrayRef == Ptr(ArrayAlloc, 0)

\* A reference to a sequence: the address of its first element, its length
\* (the metadata of a slice reference, the N of an array type), and the size of
\* its element type, which is the distance between two elements.
SeqRef(p, n, kind, stride) == [ptr |-> p, len |-> n, kind |-> kind, stride |-> stride]
NoSeq == SeqRef(Null, 0, "none", 0)

\* &s[i]
Index(s, i) == Ptr(s.ptr.alloc, s.ptr.off + i * s.stride)

\* &array as &[T; N] (kind "array") or, unsized, as &[T] (kind "slice"); the
\* same for &Cell<[T; N]> and &Cell<[T]>.
ArraySeqRef(m, kind) == SeqRef(ArrayRef, Len(m[ArrayAlloc]), kind, size_of(TyT))

\* core::cell::Cell<T>::as_ptr, get and set: the cell is transparent over T.
Cell_as_ptr(t) == t
Cell_get(m, t) == Read(m, Cell_as_ptr(t))
Cell_set(m, t, v) == Write(m, Cell_as_ptr(t), v)
Cell_set_array(m, t, s) == WriteSeq(m, Cell_as_ptr(t).ptr, s)

\* ReadCell::as_ptr(&self) -> *mut T: self.value.get().
as_ptr(self) == self

\* ReadCell::get(&self) -> T: unsafe { *self.value.get() }.
get(m, self) == Read(m, as_ptr(self))

\* ReadCell::get_mut(&mut self) -> &mut T: self.value.get_mut().
get_mut(self) == self

\* ReadCell::new(value) in the binding k: the instance and the memory holding it.
new(m, k, value) == [mem |-> Alloc(m, OwnAlloc(k), <<value>>), ptr |-> Ptr(OwnAlloc(k), 0)]

\* A faulty into_inner: the value is read after the instance is released.
into_inner_after_free(m, self) ==
    LET m2 == Dealloc(m, self.alloc)
    IN [mem |-> m2, val |-> Read(m2, self)]

\* ReadCell::into_inner(self) -> T: self.value.into_inner(); the instance ends.
into_inner(m, self) == [mem |-> Dealloc(m, self.alloc), val |-> Read(m, self)]

\* ReadCell::from_ref(t: &T) -> &ReadCell<T>: the pointer cast.
from_ref(t) == t

\* ReadCell::from_cell(t: &Cell<T>) -> &ReadCell<T>: the cast of t.as_ptr().
from_cell(t) == Cell_as_ptr(t)

\* A faulty as_slice_of_cells: the cast goes through a thin pointer to the first
\* element and the length is lost.
as_slice_of_cells_thin(self) == SeqRef(self.ptr, 1, "slice", size_of_ReadCell(TyT))

\* ReadCell<[T]>::as_slice_of_cells(&self) -> &[ReadCell<T>]: the cast keeps the
\* address and the length; the elements are now ReadCell<T>.
as_slice_of_cells(self) == SeqRef(self.ptr, self.len, "slice", size_of_ReadCell(TyT))

\* ReadCell<[T; N]>::as_array_of_cells(&self) -> &[ReadCell<T>; N]: the cast keeps
\* the address, and N is the same in both types.
as_array_of_cells(self) == SeqRef(self.ptr, self.len, "array", size_of_ReadCell(TyT))

\* A faulty clone: the new handle shares the location of the source.
clone_alias(m, self, k) == [mem |-> m, ptr |-> as_ptr(self)]

\* Clone::clone(&self): ReadCell::new(self.get()), into the binding k.
clone(m, self, k) == new(m, k, get(m, self))

\* T's own comparison (T: Ord).
Ordering(a, b) == IF a < b THEN "Less" ELSE IF a = b THEN "Equal" ELSE "Greater"

\* A faulty eq: identity of the two locations.
eq_addr(m, self, other) == as_ptr(self) = as_ptr(other)

\* PartialEq, PartialOrd and Ord for ReadCell<T>.
eq(m, self, other) == get(m, self) = get(m, other)
partial_cmp(m, self, other) == <<"Some", Ordering(get(m, self), get(m, other))>>
lt(m, self, other) == get(m, self) < get(m, other)
le(m, self, other) == get(m, self) <= get(m, other)
gt(m, self, other) == get(m, self) > get(m, other)
ge(m, self, other) == get(m, self) >= get(m, other)
cmp(m, self, other) == Ordering(get(m, self), get(m, other))

\* --------------------------------------------------- the client's handles
\* The views the client program can call the crate through: its owning
\* bindings and the two view references.
HOwn(k) == <<"own", k>>
HFromRef == <<"from_ref", 0>>
HFromCell == <<"from_cell", 0>>
NoH == <<"none", 0>>

\* The &ReadCell<T> a handle stands for.
Ref(h) == IF h[1] = "own" THEN own[h[2]] ELSE IF h = HFromRef THEN rf ELSE IF h = HFromCell THEN rc ELSE Null

Handles == {HOwn(k) : k \in Slots} \cup {HFromRef, HFromCell}
LiveH == {h \in Handles : Ref(h) # Null}

\* The value the history gives to the object a handle views.
Logical(h) ==
    IF h[1] = "own" THEN gval[h[2]]
    ELSE IF h = HFromRef THEN gobj.regular
    ELSE gobj.special

Ret(op, self, other, val) == [op |-> op, self |-> self, other |-> other, val |-> val]

HElem(i) == <<"elem", i>>

\* The sequences of at most n values of T.
RECURSIVE SeqsUpTo(_)
SeqsUpTo(n) ==
    IF n = 0 THEN {<<>>}
    ELSE LET S == SeqsUpTo(n - 1)
         IN S \cup {Append(s, v) : s \in {t \in S : Len(t) = n - 1}, v \in Val}

\* ------------------------------------------------------------ Init
\* The scalar program starts as the type's doc example does: SomeStruct with a
\* plain field and a Cell field, no view made yet.  The slice program starts
\* with an array of n elements, plain or inside a Cell.
InitScalar ==
    /\ prog = "scalar"
    /\ \E v \in Val, c \in Val :
          /\ mem = (RegularAlloc :> <<v>>) @@ (SpecialAlloc :> <<c>>)
          /\ gobj = [regular |-> v, special |-> c, array |-> <<>>]
    /\ arrIsCell = FALSE

InitSlice ==
    /\ prog = "slice"
    /\ \E s \in SeqsUpTo(MaxLen) :
          /\ mem = (ArrayAlloc :> s)
          /\ gobj = [regular |-> 0, special |-> 0, array |-> s]
    /\ arrIsCell \in BOOLEAN

Init ==
    /\ (InitScalar \/ InitSlice)
    /\ own = [k \in Slots |-> Null]
    /\ gval = [k \in Slots |-> 0]
    /\ rf = Null
    /\ rc = Null
    /\ whole = NoSeq
    /\ elems = NoSeq
    /\ ret = Ret("init", NoH, NoH, 0)

\* ------------------------------------------------------------ actions
\* let k = ReadCell::new(v);
New(k, v) ==
    /\ prog = "scalar"
    /\ own[k] = Null
    /\ LET r == new(mem, k, v)
       IN /\ mem' = r.mem
          /\ own' = [own EXCEPT ![k] = r.ptr]
    /\ gval' = [gval EXCEPT ![k] = v]
    /\ ret' = Ret("new", HOwn(k), NoH, v)
    /\ UNCHANGED <<prog, rf, rc, whole, elems, arrIsCell, gobj>>

\* k.into_inner()
IntoInner(k) ==
    /\ prog = "scalar"
    /\ own[k] # Null
    /\ LET r == into_inner(mem, own[k])
       IN /\ mem' = r.mem
          /\ ret' = Ret("into_inner", HOwn(k), NoH, r.val)
    /\ own' = [own EXCEPT ![k] = Null]
    /\ gval' = [gval EXCEPT ![k] = 0]
    /\ UNCHANGED <<prog, rf, rc, whole, elems, arrIsCell, gobj>>

\* A faulty get: the value is moved out, as Cell::take does, and the default
\* value is left in the location.
GetTake(h) ==
    /\ prog = "scalar"
    /\ Ref(h) # Null
    /\ ret' = Ret("get", h, NoH, get(mem, Ref(h)))
    /\ mem' = Write(mem, as_ptr(Ref(h)), 0)
    /\ UNCHANGED <<prog, own, rf, rc, whole, elems, arrIsCell, gval, gobj>>

\* h.get()
Get(h) ==
    /\ prog = "scalar"
    /\ Ref(h) # Null
    /\ ret' = Ret("get", h, NoH, get(mem, Ref(h)))
    /\ UNCHANGED <<prog, mem, own, rf, rc, whole, elems, arrIsCell, gval, gobj>>

\* h.as_ptr()
AsPtr(h) ==
    /\ prog = "scalar"
    /\ Ref(h) # Null
    /\ ret' = Ret("as_ptr", h, NoH, as_ptr(Ref(h)))
    /\ UNCHANGED <<prog, mem, own, rf, rc, whole, elems, arrIsCell, gval, gobj>>

\* A faulty get_mut: the handle refers to a copy of the value, so the write
\* does not reach the instance.
GetMutWriteCopy(k, w) ==
    /\ prog = "scalar"
    /\ own[k] # Null
    /\ gval' = [gval EXCEPT ![k] = w]
    /\ ret' = Ret("get_mut", HOwn(k), NoH, w)
    /\ UNCHANGED <<prog, mem, own, rf, rc, whole, elems, arrIsCell, gobj>>

\* *k.get_mut() = w;  only an owning binding can be borrowed mutably: the two
\* view references are shared references.
GetMutWrite(k, w) ==
    /\ prog = "scalar"
    /\ own[k] # Null
    /\ mem' = Write(mem, get_mut(own[k]), w)
    /\ gval' = [gval EXCEPT ![k] = w]
    /\ ret' = Ret("get_mut", HOwn(k), NoH, w)
    /\ UNCHANGED <<prog, own, rf, rc, whole, elems, arrIsCell, gobj>>

\* *k.get_mut() += 1;  (the example of get_mut)
GetMutAddAssign(k) ==
    /\ prog = "scalar"
    /\ own[k] # Null
    /\ LET p == get_mut(own[k])
           w == Read(mem, p) + 1
       IN /\ w \in Val
          /\ mem' = Write(mem, p, w)
          /\ ret' = Ret("add_assign", HOwn(k), NoH, w)
    /\ gval' = [gval EXCEPT ![k] = @ + 1]
    /\ UNCHANGED <<prog, own, rf, rc, whole, elems, arrIsCell, gobj>>

\* Where a faulty conversion that copies the value, instead of casting the
\* reference, puts the copy.
TempAlloc == <<"temp", 0>>

\* A faulty from_ref: a view of a copy of the value.
FromRefCopy ==
    /\ prog = "scalar"
    /\ rf = Null
    /\ mem' = Alloc(mem, TempAlloc, <<Read(mem, RegularRef)>>)
    /\ rf' = Ptr(TempAlloc, 0)
    /\ ret' = Ret("from_ref", HFromRef, NoH, rf')
    /\ UNCHANGED <<prog, own, rc, whole, elems, arrIsCell, gval, gobj>>

\* let rf = ReadCell::from_ref(&my_struct.regular_field);
FromRef ==
    /\ prog = "scalar"
    /\ rf = Null
    /\ rf' = from_ref(RegularRef)
    /\ ret' = Ret("from_ref", HFromRef, NoH, rf')
    /\ UNCHANGED <<prog, mem, own, rc, whole, elems, arrIsCell, gval, gobj>>

\* A faulty from_cell: a view of a copy of the Cell's value.
FromCellCopy ==
    /\ prog = "scalar"
    /\ rc = Null
    /\ mem' = Alloc(mem, TempAlloc, <<Cell_get(mem, SpecialRef)>>)
    /\ rc' = Ptr(TempAlloc, 0)
    /\ ret' = Ret("from_cell", HFromCell, NoH, rc')
    /\ UNCHANGED <<prog, own, rf, whole, elems, arrIsCell, gval, gobj>>

\* let rc = ReadCell::from_cell(&my_struct.special_field);
FromCell ==
    /\ prog = "scalar"
    /\ rc = Null
    /\ rc' = from_cell(SpecialRef)
    /\ ret' = Ret("from_cell", HFromCell, NoH, rc')
    /\ UNCHANGED <<prog, mem, own, rf, whole, elems, arrIsCell, gval, gobj>>

\* The borrow of a view reference ends.
Expire(h) ==
    /\ prog = "scalar"
    /\ h \in {HFromRef, HFromCell}
    /\ Ref(h) # Null
    /\ rf' = IF h = HFromRef THEN Null ELSE rf
    /\ rc' = IF h = HFromCell THEN Null ELSE rc
    /\ ret' = Ret("expire", h, NoH, 0)
    /\ UNCHANGED <<prog, mem, own, whole, elems, arrIsCell, gval, gobj>>

\* my_struct.regular_field = v;  needs the exclusive borrow of the field, which
\* the borrow checker grants only while no shared borrow of it is live.
AssignRegular(v) ==
    /\ prog = "scalar"
    /\ rf = Null
    /\ mem' = Write(mem, RegularRef, v)
    /\ gobj' = [gobj EXCEPT !.regular = v]
    /\ ret' = Ret("assign", NoH, NoH, v)
    /\ UNCHANGED <<prog, own, rf, rc, whole, elems, arrIsCell, gval>>

\* my_struct.special_field.set(v);  through the Cell's own reference, whether
\* or not the view reference is live.
CellSet(v) ==
    /\ prog = "scalar"
    /\ mem' = Cell_set(mem, SpecialRef, v)
    /\ gobj' = [gobj EXCEPT !.special = v]
    /\ ret' = Ret("set", NoH, NoH, v)
    /\ UNCHANGED <<prog, own, rf, rc, whole, elems, arrIsCell, gval>>

\* let k = h.clone();
Clone(h, k) ==
    /\ prog = "scalar"
    /\ Ref(h) # Null
    /\ own[k] = Null
    /\ LET r == clone(mem, Ref(h), k)
       IN /\ mem' = r.mem
          /\ own' = [own EXCEPT ![k] = r.ptr]
          /\ ret' = Ret("clone", h, HOwn(k), r.ptr)
    /\ gval' = [gval EXCEPT ![k] = Logical(h)]
    /\ UNCHANGED <<prog, rf, rc, whole, elems, arrIsCell, gobj>>

\* (a == b, a.partial_cmp(&b), a < b, a <= b, a > b, a >= b, a.cmp(&b))
Compare(a, b) ==
    /\ prog = "scalar"
    /\ Ref(a) # Null
    /\ Ref(b) # Null
    /\ ret' = Ret("compare", a, b,
                  [eq |-> eq(mem, Ref(a), Ref(b)),
                   partial_cmp |-> partial_cmp(mem, Ref(a), Ref(b)),
                   lt |-> lt(mem, Ref(a), Ref(b)),
                   le |-> le(mem, Ref(a), Ref(b)),
                   gt |-> gt(mem, Ref(a), Ref(b)),
                   ge |-> ge(mem, Ref(a), Ref(b)),
                   cmp |-> cmp(mem, Ref(a), Ref(b))])
    /\ UNCHANGED <<prog, mem, own, rf, rc, whole, elems, arrIsCell, gval, gobj>>

\* let whole = ReadCell::from_ref(&array);  as a slice or as an array
FromRefSeq(kind) ==
    /\ prog = "slice"
    /\ ~arrIsCell
    /\ whole = NoSeq
    /\ whole' = from_ref(ArraySeqRef(mem, kind))
    /\ ret' = Ret("from_ref", NoH, NoH, whole')
    /\ UNCHANGED <<prog, mem, own, rf, rc, elems, arrIsCell, gval, gobj>>

\* let whole = ReadCell::from_cell(&array);  as a slice or as an array
FromCellSeq(kind) ==
    /\ prog = "slice"
    /\ arrIsCell
    /\ whole = NoSeq
    /\ whole' = from_cell(ArraySeqRef(mem, kind))
    /\ ret' = Ret("from_cell", NoH, NoH, whole')
    /\ UNCHANGED <<prog, mem, own, rf, rc, elems, arrIsCell, gval, gobj>>

\* let elems = whole.as_slice_of_cells();
AsSliceOfCells ==
    /\ prog = "slice"
    /\ whole.kind = "slice"
    /\ elems = NoSeq
    /\ elems' = as_slice_of_cells(whole)
    /\ ret' = Ret("as_slice_of_cells", NoH, NoH, elems')
    /\ UNCHANGED <<prog, mem, own, rf, rc, whole, arrIsCell, gval, gobj>>

\* A faulty as_array_of_cells: the views are over a copy of the array.
AsArrayOfCellsCopy ==
    /\ prog = "slice"
    /\ whole.kind = "array"
    /\ elems = NoSeq
    /\ mem' = Alloc(mem, TempAlloc, mem[ArrayAlloc])
    /\ elems' = as_array_of_cells(SeqRef(Ptr(TempAlloc, 0), whole.len, "array", whole.stride))
    /\ ret' = Ret("as_array_of_cells", NoH, NoH, elems')
    /\ UNCHANGED <<prog, own, rf, rc, whole, arrIsCell, gval, gobj>>

\* let elems = whole.as_array_of_cells();
AsArrayOfCells ==
    /\ prog = "slice"
    /\ whole.kind = "array"
    /\ elems = NoSeq
    /\ elems' = as_array_of_cells(whole)
    /\ ret' = Ret("as_array_of_cells", NoH, NoH, elems')
    /\ UNCHANGED <<prog, mem, own, rf, rc, whole, arrIsCell, gval, gobj>>

\* elems.len()
ElemsLen ==
    /\ prog = "slice"
    /\ elems # NoSeq
    /\ ret' = Ret("len", NoH, NoH, elems.len)
    /\ UNCHANGED <<prog, mem, own, rf, rc, whole, elems, arrIsCell, gval, gobj>>

\* elems[i].get();  an index past the length panics
ElemGet(i) ==
    /\ prog = "slice"
    /\ elems # NoSeq
    /\ i < elems.len
    /\ ret' = Ret("elem_get", HElem(i), NoH, get(mem, Index(elems, i)))
    /\ UNCHANGED <<prog, mem, own, rf, rc, whole, elems, arrIsCell, gval, gobj>>

\* array.set(s);  through the Cell<[T; N]> itself
CellSetArray(s) ==
    /\ prog = "slice"
    /\ arrIsCell
    /\ Len(s) = Len(mem[ArrayAlloc])
    /\ mem' = Cell_set_array(mem, ArraySeqRef(mem, "array"), s)
    /\ gobj' = [gobj EXCEPT !.array = s]
    /\ ret' = Ret("set_array", NoH, NoH, s)
    /\ UNCHANGED <<prog, own, rf, rc, whole, elems, arrIsCell, gval>>

Next ==
    \/ \E k \in Slots, v \in Val : New(k, v)
    \/ \E k \in Slots : IntoInner(k)
    \/ \E h \in Handles : Get(h)
    \/ \E h \in Handles : AsPtr(h)
    \/ \E k \in Slots, w \in Val : GetMutWrite(k, w)
    \/ \E k \in Slots : GetMutAddAssign(k)
    \/ FromRef
    \/ FromCell
    \/ \E h \in Handles : Expire(h)
    \/ \E v \in Val : AssignRegular(v)
    \/ \E v \in Val : CellSet(v)
    \/ \E h \in Handles, k \in Slots : Clone(h, k)
    \/ \E a \in Handles, b \in Handles : Compare(a, b)
    \/ \E kind \in {"slice", "array"} : FromRefSeq(kind)
    \/ \E kind \in {"slice", "array"} : FromCellSeq(kind)
    \/ AsSliceOfCells
    \/ AsArrayOfCells
    \/ ElemsLen
    \/ \E i \in 0..(MaxLen - 1) : ElemGet(i)
    \/ \E s \in SeqsUpTo(MaxLen) : CellSetArray(s)

Spec == Init /\ [][Next]_vars

\* ------------------------------------------------------------ claims
WriteOps == {"get_mut", "add_assign"}

\* C1: a view reference made by from_cell reads the Cell's current value: the
\* initial value at first, and after every set made through the Cell's own
\* reference while the view is live, the value of the most recent set; it never
\* reads anything but the initial value or a value some set wrote.
C1_ViewReadsCell ==
    rc # Null =>
        /\ get(mem, rc) = Cell_get(mem, SpecialRef)
        /\ get(mem, rc) = gobj.special
        /\ get(mem, rc) \in Val
        /\ (ret.op = "set" => get(mem, rc) = ret.val)
        /\ (ret.op = "get" /\ ret.self = HFromCell => ret.val = gobj.special)

\* A set was made through the Cell while the view reference is live, and the
\* view reads the value set.
C1_Witness ==
    /\ rc # Null
    /\ ret.op = "set"
    /\ get(mem, rc) = ret.val

\* C2: right after ReadCell::new(v) both get() and into_inner() return v; a get()
\* changes neither what get() nor what into_inner() returns; every get() and
\* every into_inner() of an owning instance returns the value last given to it.
C2_NewState ==
    ret.op = "new" =>
        /\ get(mem, Ref(ret.self)) = ret.val
        /\ into_inner(mem, Ref(ret.self)).val = ret.val

C2_GetReturns ==
    (ret.op = "get" /\ ret.self[1] = "own") => ret.val = gval[ret.self[2]]

C2_GetStep ==
    ret'.op = "get" =>
        \A k \in Slots : own[k] # Null =>
            /\ own'[k] = own[k]
            /\ get(mem', own'[k]) = get(mem, own[k])
            /\ into_inner(mem', own'[k]).val = into_inner(mem, own[k]).val

C2_IntoInnerStep ==
    \A k \in Slots : (own[k] # Null /\ own'[k] = Null) =>
        /\ ret'.op = "into_inner"
        /\ ret'.val = gval[k]

\* C2, whole: new(v) then get() and into_inner() return v, and no number of
\* get() calls before into_inner() changes what it returns.
C2_NewGetIntoInner ==
    /\ [](C2_NewState /\ C2_GetReturns)
    /\ [][C2_GetStep /\ C2_IntoInnerStep]_vars

\* An owning instance was unwrapped, and into_inner returned a value of T.
C2_Witness ==
    /\ ret.op = "into_inner"
    /\ ret.val \in Val
    /\ own[ret.self[2]] = Null

\* C3: a view reference made by from_ref denotes the location of the plain
\* reference (as_ptr() is the address of the value, and no copy is made), and
\* reads the value the plain reference reads for as long as both are live.
C3_State ==
    rf # Null =>
        /\ as_ptr(rf) = RegularRef
        /\ get(mem, rf) = Read(mem, RegularRef)
        /\ get(mem, rf) = gobj.regular
        /\ (ret.op = "as_ptr" /\ ret.self = HFromRef => ret.val = RegularRef)
        /\ (ret.op = "get" /\ ret.self = HFromRef => ret.val = gobj.regular)

C3_NoCopy == ret'.op = "from_ref" => mem' = mem

\* C3, whole: from_ref makes no copy and the view reads the plain reference's
\* location.
C3_FromRefSameLocation == []C3_State /\ [][C3_NoCopy]_vars

\* The view made by from_ref was read.
C3_Witness ==
    /\ rf # Null
    /\ ret.op = "get"
    /\ ret.self = HFromRef
    /\ ret.val = Read(mem, RegularRef)

\* C9: a write of w through the handle returned by get_mut() is what every later
\* read observes: right after it get() and into_inner() return w, and at all
\* times an owning instance reads the value last given to it.
C9_State ==
    /\ \A k \in Slots : own[k] # Null =>
          /\ get(mem, own[k]) = gval[k]
          /\ into_inner(mem, own[k]).val = gval[k]
    /\ ret.op \in WriteOps =>
          /\ get(mem, Ref(ret.self)) = ret.val
          /\ into_inner(mem, Ref(ret.self)).val = ret.val

C9_IntoInnerStep ==
    \A k \in Slots : (own[k] # Null /\ own'[k] = Null) => ret'.val = get(mem, own[k])

\* C9, whole: after any sequence of writes through get_mut, get() and
\* into_inner() return the last value written.
C9_GetMutWriteObserved == []C9_State /\ [][C9_IntoInnerStep]_vars

\* The example of get_mut: the value was incremented through the handle, and
\* the instance reads the incremented value.
C9_Witness ==
    /\ ret.op = "add_assign"
    /\ get(mem, Ref(ret.self)) = ret.val
    /\ ret.val > 0

\* C4: as_slice_of_cells() of a view over a sequence of n elements (from a
\* plain slice or from a Cell over it) is a sequence of exactly n per-element
\* views over the same memory, and the i-th view reads the i-th element of the
\* sequence; for n = 0 as well.
C4_SliceOfCells ==
    (elems # NoSeq /\ elems.kind = "slice") =>
        /\ elems.len = Len(gobj.array)
        /\ \A i \in 0..(Len(gobj.array) - 1) :
              /\ get(mem, Index(elems, i)) = gobj.array[i + 1]
              /\ get(mem, Index(elems, i)) = Read(mem, Index(ArraySeqRef(mem, "slice"), i))
              /\ as_ptr(Index(elems, i)) = Index(ArraySeqRef(mem, "slice"), i)
        /\ (ret.op = "len" => ret.val = Len(gobj.array))
        /\ (ret.op = "elem_get" => ret.val = gobj.array[ret.self[2] + 1])

\* The second of at least two per-element views of a slice was read.
C4_Witness ==
    /\ elems.kind = "slice"
    /\ elems.len >= 2
    /\ ret.op = "elem_get"
    /\ ret.self = HElem(1)
    /\ ret.val = gobj.array[2]

\* C5: as_array_of_cells() of a view over [T; N] is an array of exactly N
\* per-element views over the same memory, the i-th view reads the i-th
\* element of the array's current contents, and when the view came from
\* from_cell the views read the new elements after the Cell's array is set.
C5_ArrayOfCells ==
    (elems # NoSeq /\ elems.kind = "array") =>
        /\ elems.len = Len(gobj.array)
        /\ \A i \in 0..(Len(gobj.array) - 1) :
              /\ get(mem, Index(elems, i)) = gobj.array[i + 1]
              /\ as_ptr(Index(elems, i)) = Index(ArraySeqRef(mem, "array"), i)
        /\ (ret.op = "len" => ret.val = Len(gobj.array))
        /\ (ret.op = "elem_get" => ret.val = gobj.array[ret.self[2] + 1])
        /\ (ret.op = "set_array" =>
              \A i \in 0..(Len(ret.val) - 1) : get(mem, Index(elems, i)) = ret.val[i + 1])

\* The Cell's array was replaced while the per-element views are live.
C5_Witness ==
    /\ elems.kind = "array"
    /\ elems.len >= 2
    /\ arrIsCell
    /\ ret.op = "set_array"
    /\ get(mem, Index(elems, 1)) = ret.val[2]

\* C6: ==, partial_cmp, cmp, <, <=, > and >= of two views give the result of
\* the same comparison of the values the two views hold at the call, whatever
\* the locations are.
C6_CompareByValue ==
    /\ ret.op = "compare" =>
          LET x == Logical(ret.self)
              y == Logical(ret.other)
          IN /\ ret.val.eq = (x = y)
             /\ ret.val.partial_cmp = <<"Some", Ordering(x, y)>>
             /\ ret.val.cmp = Ordering(x, y)
             /\ ret.val.lt = (x < y)
             /\ ret.val.le = (x <= y)
             /\ ret.val.gt = (x > y)
             /\ ret.val.ge = (x >= y)
    /\ \A a \in LiveH, b \in LiveH :
          /\ eq(mem, Ref(a), Ref(b)) = (Logical(a) = Logical(b))
          /\ cmp(mem, Ref(a), Ref(b)) = Ordering(Logical(a), Logical(b))

\* Two views of two distinct locations holding equal values compared equal,
\* one of them the view of the Cell.
C6_Witness ==
    /\ ret.op = "compare"
    /\ ret.self = HFromCell
    /\ ret.other[1] = "own"
    /\ as_ptr(Ref(ret.self)) # as_ptr(Ref(ret.other))
    /\ ret.val.eq

\* C7: clone() makes a new owning instance that reads what the source reads at
\* the call and holds a location of its own: a later change of the source
\* (through get_mut, or through set on the Cell it aliases) does not change
\* what the clone reads, and a write through get_mut on the clone changes no
\* other view.
C7_CloneState ==
    ret.op = "clone" =>
        /\ get(mem, Ref(ret.other)) = get(mem, Ref(ret.self))
        /\ get(mem, Ref(ret.other)) = Logical(ret.self)
        /\ \A h \in LiveH \ {ret.other} : as_ptr(Ref(h)) # as_ptr(Ref(ret.other))

\* An owning instance, a clone in particular, changes its value only in a
\* write through its own get_mut.
C7_OthersWrites ==
    \A k \in Slots :
        (own[k] # Null /\ own'[k] = own[k] /\ ~(ret'.op \in WriteOps /\ ret'.self = HOwn(k)))
            => get(mem', own'[k]) = get(mem, own[k])

\* A write through get_mut on an owning instance changes no other view.
C7_OwnWrites ==
    ret'.op \in WriteOps =>
        /\ \A k \in Slots : (HOwn(k) # ret'.self /\ own[k] # Null) =>
              get(mem', own'[k]) = get(mem, own[k])
        /\ rf # Null => get(mem', rf') = get(mem, rf)
        /\ rc # Null => get(mem', rc') = get(mem, rc)

\* C7, whole: the clone reads the source's value at the call and is
\* independent of it afterwards.
C7_CloneIndependent == []C7_CloneState /\ [][C7_OthersWrites /\ C7_OwnWrites]_vars

\* The view of the Cell was cloned into a location of its own.
C7_Witness ==
    /\ ret.op = "clone"
    /\ ret.self = HFromCell
    /\ as_ptr(Ref(ret.other)) # as_ptr(rc)
    /\ get(mem, Ref(ret.other)) = Cell_get(mem, SpecialRef)

\* C8: get, as_ptr, clone, the comparisons, from_ref, from_cell,
\* as_slice_of_cells and as_array_of_cells leave every value in memory as it
\* is; the value a view reads changes only in a write through get_mut on that
\* view, which is an owning binding, or, for a view that aliases a Cell, in a
\* set made through the Cell itself.
ReadOnlyOps ==
    {"get", "as_ptr", "clone", "compare", "from_ref", "from_cell",
     "as_slice_of_cells", "as_array_of_cells"}

C8_Frame ==
    ret'.op \in ReadOnlyOps =>
        \A a \in DOMAIN mem : a \in DOMAIN mem' /\ mem'[a] = mem[a]

C8_OnlyGetMut ==
    /\ \A k \in Slots :
          (own[k] # Null /\ own'[k] = own[k] /\ get(mem', own'[k]) # get(mem, own[k]))
              => (ret'.op \in WriteOps /\ ret'.self = HOwn(k))
    /\ (rf # Null /\ rf' = rf) => get(mem', rf') = get(mem, rf)
    /\ (rc # Null /\ rc' = rc /\ get(mem', rc') # get(mem, rc)) => ret'.op = "set"
    /\ \A i \in 0..(elems.len - 1) :
          (elems' = elems /\ get(mem', Index(elems, i)) # get(mem, Index(elems, i)))
              => ret'.op = "set_array"

\* C8, whole: every step of the read-only operations is a frame step, and
\* get_mut is the one operation of a view that changes its value.
C8_ReadOnlySubset == [][C8_Frame /\ C8_OnlyGetMut]_vars

\* The view made by from_ref was read while an owning instance holds another
\* value: the read changed neither.
C8_Witness ==
    /\ ret.op = "get"
    /\ ret.self = HFromRef
    /\ \E k \in Slots : own[k] # Null /\ get(mem, own[k]) # ret.val

====
